---- MODULE Spec2Model ----
(***************************************************************************)
(* Model of LegalAgent (src/src/agents/legalAgent.ts): lazy model          *)
(* initialization, processQuery (buffered), getStream / monitorStream      *)
(* (relayed), trimMessages, and the per-session message store the agent    *)
(* reads and commits to.                                                   *)
(***************************************************************************)
EXTENDS Integers, Sequences, FiniteSets, TLC

\* ------------------------------------------------------------------ bounds
NReq == 2          \* number of processQuery / getStream calls
MaxOps == 3        \* longest run of registry operations applied on their own
MaxChunks == 2     \* longest model stream
MaxLen == 11       \* longest input sequence handed to trimMessages alone
PriorLen == 10     \* length of a history already in the store at construction

\* ------------------------------------------------------- program constants
maxContextMessages == 10

Req == 1..NReq
Ctor == 0                      \* the constructor as initiator of initializeAgent
Initiators == {Ctor} \cup Req

Sessions == {"s1"}             \* session ids callers pass
NoSession == ""                \* sessionId omitted (or falsy)
GenNames == <<"session_1", "session_2", "session_3", "session_4">>
Queries == {<<"q">>}
Fragments == {<<"a">>}         \* message.content of a text chunk

\* ------------------------------------------------------------------- turns
Roles == {"system", "user", "assistant"}

\* A turn: role, content and the identity of the object (req = the call that
\* made it, 0 for a turn that was in the store before; pos tells such turns apart).
Turn(role, content, req, pos) ==
    [role |-> role, content |-> content, req |-> req, pos |-> pos]

Null == Turn("null", << >>, 0, 0)   \* aiMessage = null

\* ------------------------------------------------------------ trimMessages
\* the filter with its test inverted
Filter_Inverted(s, role) == SelectSeq(s, LAMBDA m : m.role # role)

Filter(s, role) == SelectSeq(s, LAMBDA m : m.role = role)

\* slice(-(n - 1)): one turn short
Slice_OffByOne(s, n) ==
    IF Len(s) <= n - 1 THEN s ELSE SubSeq(s, Len(s) - n + 2, Len(s))

Slice(s, n) ==
    \* messages.slice(-n) for n > 0: the last n elements (all when n >= length)
    IF Len(s) <= n THEN s ELSE SubSeq(s, Len(s) - n + 1, Len(s))

\* `<` for `<=` in the length test
trimMessages_StrictLess(messages, maxCount) ==
    IF Len(messages) < maxCount
    THEN messages
    ELSE Filter(messages, "system") \o Slice(messages, maxCount)

\* the recent turns with the system turns taken out (deduplicated)
trimMessages_Dedup(messages, maxCount) ==
    IF Len(messages) <= maxCount
    THEN messages
    ELSE Filter(messages, "system")
             \o SelectSeq(Slice(messages, maxCount), LAMBDA m : m.role # "system")

trimMessages(messages, maxCount) ==
    IF Len(messages) <= maxCount
    THEN messages
    ELSE LET systemMessages == Filter(messages, "system")
             recentMessages == Slice(messages, maxCount)
         IN  systemMessages \o recentMessages

\* ------------------------------------------------------------------- state
VARIABLES
    isInitialized,       \* LegalAgent.isInitialized
    agent,               \* LegalAgent.agent: {} (undefined) or {the initiator whose createAgent set it}
    initState,           \* per initiator, its initializeAgent call: none/running/ok/failed
    sessionMemory,       \* MemorySaverManager: session id -> stored turns
    pc,                  \* per call, where it stands
    kind,                \* per call: "processQuery" or "getStream"
    sessionId,           \* per call: the sessionId argument
    query,               \* per call: the query argument
    effectiveSessionId,  \* per call: effectiveSessionId
    allMessages,         \* per call: the messages handed to agent.stream
    modelStream,         \* per call: the chunks the model stream has produced
    fullResponse,        \* per call: fullResponse
    aiMessage,           \* per call: aiMessage (Null when none)
    relayed,             \* per getStream call: the chunks yielded to the consumer
    ctorError,           \* what became of a failure of the constructor's initializeAgent
    turns, maxCount, trimmed, tpc,  \* trimMessages applied on its own
    sessionContext,      \* MemorySaverManager: session id -> context mapping
    log                  \* the registry operations applied, when they are applied on their own

agentVars == <<isInitialized, agent, initState, sessionMemory, pc, kind, sessionId,
               query, effectiveSessionId, allMessages, modelStream, fullResponse,
               aiMessage, relayed, ctorError>>
trimVars == <<turns, maxCount, trimmed, tpc>>
contextVars == <<sessionContext, log>>
vars == <<isInitialized, agent, initState, sessionMemory, pc, kind, sessionId,
          query, effectiveSessionId, allMessages, modelStream, fullResponse,
          aiMessage, relayed, ctorError, turns, maxCount, trimmed, tpc,
          sessionContext, log>>

SessionIds == Sessions \cup {GenNames[r] : r \in Req}

\* `session_${Date.now()}_${random}`: an id no caller passes and no other call gets
generateDefaultSessionId(r) == GenNames[r]

\* ------------------------------------------------- MemorySaverManager store
getMessages(store, sid) == store[sid]

addMessage(store, sid, turn) == [store EXCEPT ![sid] = Append(@, turn)]

\* ------------------------------------------------------------ model chunks
TextChunk(frag) == [isText |-> TRUE, content |-> frag]
OtherChunk == [isText |-> FALSE, content |-> << >>]
Chunks == {TextChunk(f) : f \in Fragments} \cup {OtherChunk}

\* Array.isArray(chunk) && chunk.length > 0 && message && typeof message.content === 'string'
hasStringContent(chunk) == chunk.isText

\* the message object a text chunk of call r carries
chunkMessage(r, chunk, n) == Turn("assistant", chunk.content, r, n)

\* new HumanMessage({ content: query }) of call r
newUserMessage(r, q) == Turn("user", q, r, 0)

\* a history left in the store by earlier use: a system turn, then user/assistant turns
PriorTurn(i) ==
    Turn(IF i = 1 THEN "system" ELSE IF i % 2 = 0 THEN "user" ELSE "assistant",
         <<"p">>, 0, i)
PriorHistory == [i \in 1..PriorLen |-> PriorTurn(i)]
InitialHistories == {<< >>, PriorHistory}

\* -------------------------------------------------------------------- Init
InitAgent ==
    /\ isInitialized = FALSE
    /\ agent = {}
    \* the constructor has called initializeAgent(), which is awaiting initChatModel
    /\ initState = [i \in Initiators |-> IF i = Ctor THEN "running" ELSE "none"]
    /\ sessionMemory \in [SessionIds -> InitialHistories]
    /\ \A r \in Req : sessionMemory[GenNames[r]] = << >>
    /\ pc = [r \in Req |-> "idle"]
    /\ kind = [r \in Req |-> "none"]
    /\ sessionId = [r \in Req |-> NoSession]
    /\ query = [r \in Req |-> << >>]
    /\ effectiveSessionId = [r \in Req |-> NoSession]
    /\ allMessages = [r \in Req |-> << >>]
    /\ modelStream = [r \in Req |-> << >>]
    /\ fullResponse = [r \in Req |-> << >>]
    /\ aiMessage = [r \in Req |-> Null]
    /\ relayed = [r \in Req |-> << >>]
    \* the constructor has returned the instance to its caller: no error so far
    /\ ctorError = "none"

\* context keys and values; Absent marks a key the mapping does not hold
Keys == {"a", "b"}
Absent == "absent"
Values == {"1", "2"}
EmptyContext == [k \in Keys |-> Absent]

ContextIdle ==
    /\ sessionContext = [s \in SessionIds |-> EmptyContext]
    /\ log = << >>

TrimIdle ==
    /\ turns = << >>
    /\ maxCount = maxContextMessages
    /\ trimmed = << >>
    /\ tpc = "off"

Init == InitAgent /\ TrimIdle /\ ContextIdle

\* ---------------------------------------------------------- initializeAgent
\* initChatModel resolved and createAgent returned: lines 131-139
InitializeSucceed(i) ==
    /\ initState[i] = "running"
    /\ initState' = [initState EXCEPT ![i] = "ok"]
    /\ agent' = {i}
    /\ isInitialized' = TRUE
    /\ pc' = IF i \in Req THEN [pc EXCEPT ![i] = "ready"] ELSE pc
    /\ UNCHANGED <<sessionMemory, kind, sessionId, query, effectiveSessionId,
                   allMessages, modelStream, fullResponse, aiMessage, relayed>>
    /\ UNCHANGED <<trimVars, contextVars, ctorError>>

\* InitializeFail letting the constructor's failure escape its .catch
InitializeFail_Rethrows(i) ==
    /\ initState[i] = "running"
    /\ initState' = [initState EXCEPT ![i] = "failed"]
    /\ pc' = IF i \in Req THEN [pc EXCEPT ![i] = "failedInit"] ELSE pc
    /\ ctorError' = IF i = Ctor THEN "thrown" ELSE ctorError
    /\ UNCHANGED <<isInitialized, agent, sessionMemory, kind, sessionId, query,
                   effectiveSessionId, allMessages, modelStream, fullResponse,
                   aiMessage, relayed>>
    /\ UNCHANGED <<trimVars, contextVars>>

\* initChatModel or createAgent threw: lines 141-144. The constructor's .catch
\* logs it (line 49-51); a call's await rethrows it to the caller (152, 219).
InitializeFail(i) ==
    /\ initState[i] = "running"
    /\ initState' = [initState EXCEPT ![i] = "failed"]
    /\ pc' = IF i \in Req THEN [pc EXCEPT ![i] = "failedInit"] ELSE pc
    /\ ctorError' = IF i = Ctor THEN "logged" ELSE ctorError
    /\ UNCHANGED <<isInitialized, agent, sessionMemory, kind, sessionId, query,
                   effectiveSessionId, allMessages, modelStream, fullResponse,
                   aiMessage, relayed>>
    /\ UNCHANGED <<trimVars, contextVars>>

\* ------------------------------------------- processQuery / getStream entry
\* lines 157-179 / 224-246: resolve the session, read and trim the history,
\* append the new user message, call agent.stream
\* Processing that sends the stored history untrimmed
Processing_Untrimmed(r, q, sidArg) ==
    LET sid == IF sidArg # NoSession THEN sidArg ELSE generateDefaultSessionId(r)
        sessionMessages == getMessages(sessionMemory, sid)
        trimmedMessages == trimMessages(sessionMessages, maxContextMessages)
    IN  /\ effectiveSessionId' = [effectiveSessionId EXCEPT ![r] = sid]
        /\ allMessages' = [allMessages EXCEPT ![r] =
                              Append(sessionMessages, newUserMessage(r, q))]

Processing(r, q, sidArg) ==
    LET sid == IF sidArg # NoSession THEN sidArg ELSE generateDefaultSessionId(r)
        sessionMessages == getMessages(sessionMemory, sid)
        trimmedMessages == trimMessages(sessionMessages, maxContextMessages)
    IN  /\ effectiveSessionId' = [effectiveSessionId EXCEPT ![r] = sid]
        /\ allMessages' = [allMessages EXCEPT ![r] =
                              trimmedMessages \o <<newUserMessage(r, q)>>]

\* Call without the `if (!this.isInitialized)` test
Call_NoInitCheck(r, k, q, sid) ==
    /\ pc[r] = "idle"
    /\ kind' = [kind EXCEPT ![r] = k]
    /\ query' = [query EXCEPT ![r] = q]
    /\ sessionId' = [sessionId EXCEPT ![r] = sid]
    /\ Processing(r, q, sid)
    /\ pc' = [pc EXCEPT ![r] = "invoking"]
    /\ UNCHANGED <<isInitialized, agent, initState, sessionMemory, modelStream,
                   fullResponse, aiMessage, relayed>>
    /\ UNCHANGED <<trimVars, contextVars, ctorError>>

\* a caller calls processQuery(q, sid) or getStream(q, sid): lines 150-153 / 217-220
Call(r, k, q, sid) ==
    /\ pc[r] = "idle"
    /\ kind' = [kind EXCEPT ![r] = k]
    /\ query' = [query EXCEPT ![r] = q]
    /\ sessionId' = [sessionId EXCEPT ![r] = sid]
    /\ IF ~isInitialized
       THEN /\ initState' = [initState EXCEPT ![r] = "running"]
            /\ pc' = [pc EXCEPT ![r] = "initializing"]
            /\ UNCHANGED <<effectiveSessionId, allMessages>>
       ELSE /\ Processing(r, q, sid)
            /\ pc' = [pc EXCEPT ![r] = "invoking"]
            /\ UNCHANGED initState
    /\ UNCHANGED <<isInitialized, agent, sessionMemory, modelStream, fullResponse,
                   aiMessage, relayed>>
    /\ UNCHANGED <<trimVars, contextVars, ctorError>>

\* the call resumes after `await this.initializeAgent()`
Resume(r) ==
    /\ pc[r] = "ready"
    /\ Processing(r, query[r], sessionId[r])
    /\ pc' = [pc EXCEPT ![r] = "invoking"]
    /\ UNCHANGED <<isInitialized, agent, initState, sessionMemory, kind, sessionId,
                   query, modelStream, fullResponse, aiMessage, relayed>>
    /\ UNCHANGED <<trimVars, contextVars, ctorError>>

\* StreamOpen saving the user message as soon as the stream is open
StreamOpen_SavesUser(r) ==
    /\ pc[r] = "invoking"
    /\ pc' = [pc EXCEPT ![r] = IF kind[r] = "processQuery" THEN "streaming"
                                                          ELSE "returned"]
    /\ sessionMemory' = addMessage(sessionMemory, effectiveSessionId[r],
                                   newUserMessage(r, query[r]))
    /\ UNCHANGED <<isInitialized, agent, initState, kind, sessionId,
                   query, effectiveSessionId, allMessages, modelStream, fullResponse,
                   aiMessage, relayed>>
    /\ UNCHANGED <<trimVars, contextVars, ctorError>>

\* `await this.agent.stream(...)` returns the stream: processQuery enters its
\* for-await loop (line 185); getStream wraps the stream in monitorStream and
\* returns the generator, whose body has not started (lines 249-251)
StreamOpen(r) ==
    /\ pc[r] = "invoking"
    /\ pc' = [pc EXCEPT ![r] = IF kind[r] = "processQuery" THEN "streaming"
                                                          ELSE "returned"]
    /\ UNCHANGED <<isInitialized, agent, initState, sessionMemory, kind, sessionId,
                   query, effectiveSessionId, allMessages, modelStream, fullResponse,
                   aiMessage, relayed>>
    /\ UNCHANGED <<trimVars, contextVars, ctorError>>

\* agent.stream throws: caught at 208 / 253 and rethrown wrapped
StreamOpenFail(r) ==
    /\ pc[r] = "invoking"
    /\ pc' = [pc EXCEPT ![r] = "failedQuery"]
    /\ UNCHANGED <<isInitialized, agent, initState, sessionMemory, kind, sessionId,
                   query, effectiveSessionId, allMessages, modelStream, fullResponse,
                   aiMessage, relayed>>
    /\ UNCHANGED <<trimVars, contextVars, ctorError>>

\* fullResponse += message.content; aiMessage = message  (188-191 / 322-325)
accumulate(r, chunk) ==
    IF hasStringContent(chunk)
    THEN /\ fullResponse' = [fullResponse EXCEPT ![r] = @ \o chunk.content]
         /\ aiMessage' = [aiMessage EXCEPT ![r] =
                             chunkMessage(r, chunk, Len(modelStream[r]) + 1)]
    ELSE UNCHANGED <<fullResponse, aiMessage>>

\* commitAssistant without the `if (aiMessage)` guard
commitAssistant_NoGuard(store, r) ==
    addMessage(store, effectiveSessionId[r], aiMessage[r])

\* the commit both paths end with: `if (aiMessage) addMessage(sid, aiMessage)`
commitAssistant(store, r) ==
    IF aiMessage[r] # Null
    THEN addMessage(store, effectiveSessionId[r], aiMessage[r])
    ELSE store

\* ------------------------------------------------------ processQuery stream
\* one iteration of the for-await loop, lines 185-193
PQChunk(r, chunk) ==
    /\ pc[r] = "streaming"
    /\ Len(modelStream[r]) < MaxChunks
    /\ modelStream' = [modelStream EXCEPT ![r] = Append(@, chunk)]
    /\ accumulate(r, chunk)
    /\ UNCHANGED <<isInitialized, agent, initState, sessionMemory, pc, kind,
                   sessionId, query, effectiveSessionId, allMessages, relayed>>
    /\ UNCHANGED <<trimVars, contextVars, ctorError>>

\* the stream throws inside the loop: caught at 208, rethrown wrapped at 210
PQStreamError(r) ==
    /\ pc[r] = "streaming"
    /\ pc' = [pc EXCEPT ![r] = "failedQuery"]
    /\ UNCHANGED <<isInitialized, agent, initState, sessionMemory, kind, sessionId,
                   query, effectiveSessionId, allMessages, modelStream, fullResponse,
                   aiMessage, relayed>>
    /\ UNCHANGED <<trimVars, contextVars, ctorError>>

\* PQCommit saving the assistant message before the user message
PQCommit_AssistantFirst(r) ==
    /\ pc[r] = "streaming"
    /\ sessionMemory' = addMessage(commitAssistant(sessionMemory, r),
                                   effectiveSessionId[r], newUserMessage(r, query[r]))
    /\ pc' = [pc EXCEPT ![r] = "done"]
    /\ UNCHANGED <<isInitialized, agent, initState, kind, sessionId, query,
                   effectiveSessionId, allMessages, modelStream, fullResponse,
                   aiMessage, relayed>>
    /\ UNCHANGED <<trimVars, contextVars, ctorError>>

\* PQCommit writing the request list back in place of appending to the store
PQCommit_Rewrites(r) ==
    /\ pc[r] = "streaming"
    /\ sessionMemory' = commitAssistant(
           [sessionMemory EXCEPT ![effectiveSessionId[r]] = allMessages[r]], r)
    /\ pc' = [pc EXCEPT ![r] = "done"]
    /\ UNCHANGED <<isInitialized, agent, initState, kind, sessionId, query,
                   effectiveSessionId, allMessages, modelStream, fullResponse,
                   aiMessage, relayed>>
    /\ UNCHANGED <<trimVars, contextVars, ctorError>>

\* the stream is exhausted: lines 195-206, processQuery returns fullResponse
PQCommit(r) ==
    /\ pc[r] = "streaming"
    /\ sessionMemory' = commitAssistant(
           addMessage(sessionMemory, effectiveSessionId[r],
                      newUserMessage(r, query[r])), r)
    /\ pc' = [pc EXCEPT ![r] = "done"]
    /\ UNCHANGED <<isInitialized, agent, initState, kind, sessionId, query,
                   effectiveSessionId, allMessages, modelStream, fullResponse,
                   aiMessage, relayed>>
    /\ UNCHANGED <<trimVars, contextVars, ctorError>>

\* ----------------------------------------------------------- monitorStream
\* MSFirstPull without the addMessage of line 314
MSFirstPull_NoSave(r) ==
    /\ pc[r] = "returned"
    /\ pc' = [pc EXCEPT ![r] = "pulling"]
    /\ UNCHANGED <<isInitialized, agent, initState, sessionMemory, kind, sessionId,
                   query, effectiveSessionId, allMessages, modelStream, fullResponse,
                   aiMessage, relayed>>
    /\ UNCHANGED <<trimVars, contextVars, ctorError>>

\* the consumer's first next(): the generator body starts, saves the user
\* message (line 314) and awaits the first chunk (line 317)
MSFirstPull(r) ==
    /\ pc[r] = "returned"
    /\ sessionMemory' = addMessage(sessionMemory, effectiveSessionId[r],
                                   newUserMessage(r, query[r]))
    /\ pc' = [pc EXCEPT ![r] = "pulling"]
    /\ UNCHANGED <<isInitialized, agent, initState, kind, sessionId, query,
                   effectiveSessionId, allMessages, modelStream, fullResponse,
                   aiMessage, relayed>>
    /\ UNCHANGED <<trimVars, contextVars, ctorError>>

\* MSYield relaying only the chunks that carry text
MSYield_TextOnly(r, chunk) ==
    /\ pc[r] = "pulling"
    /\ Len(modelStream[r]) < MaxChunks
    /\ modelStream' = [modelStream EXCEPT ![r] = Append(@, chunk)]
    /\ relayed' = [relayed EXCEPT ![r] =
                      IF hasStringContent(chunk) THEN Append(@, chunk) ELSE @]
    /\ pc' = [pc EXCEPT ![r] = "yielded"]
    /\ UNCHANGED <<isInitialized, agent, initState, sessionMemory, kind, sessionId,
                   query, effectiveSessionId, allMessages, fullResponse, aiMessage>>
    /\ UNCHANGED <<trimVars, contextVars, ctorError>>

\* the model delivers a chunk and the generator yields it (line 318)
MSYield(r, chunk) ==
    /\ pc[r] = "pulling"
    /\ Len(modelStream[r]) < MaxChunks
    /\ modelStream' = [modelStream EXCEPT ![r] = Append(@, chunk)]
    /\ relayed' = [relayed EXCEPT ![r] = Append(@, chunk)]
    /\ pc' = [pc EXCEPT ![r] = "yielded"]
    /\ UNCHANGED <<isInitialized, agent, initState, sessionMemory, kind, sessionId,
                   query, effectiveSessionId, allMessages, fullResponse, aiMessage>>
    /\ UNCHANGED <<trimVars, contextVars, ctorError>>

\* the consumer's next next(): the generator resumes after the yield,
\* accumulates the chunk it yielded (320-326) and awaits the next one
MSNext(r) ==
    /\ pc[r] = "yielded"
    /\ LET chunk == modelStream[r][Len(modelStream[r])]
       IN  IF hasStringContent(chunk)
           THEN /\ fullResponse' = [fullResponse EXCEPT ![r] = @ \o chunk.content]
                /\ aiMessage' = [aiMessage EXCEPT ![r] =
                                    chunkMessage(r, chunk, Len(modelStream[r]))]
           ELSE UNCHANGED <<fullResponse, aiMessage>>
    /\ pc' = [pc EXCEPT ![r] = "pulling"]
    /\ UNCHANGED <<isInitialized, agent, initState, sessionMemory, kind, sessionId,
                   query, effectiveSessionId, allMessages, modelStream, relayed>>
    /\ UNCHANGED <<trimVars, contextVars, ctorError>>

\* MSCommit saving under the sessionId argument's default instead of effectiveSessionId
MSCommit_DefaultSession(r) ==
    /\ pc[r] = "pulling"
    /\ sessionMemory' =
           IF aiMessage[r] # Null
           THEN addMessage(sessionMemory, CHOOSE s \in Sessions : TRUE, aiMessage[r])
           ELSE sessionMemory
    /\ pc' = [pc EXCEPT ![r] = "done"]
    /\ UNCHANGED <<isInitialized, agent, initState, kind, sessionId, query,
                   effectiveSessionId, allMessages, modelStream, fullResponse,
                   aiMessage, relayed>>
    /\ UNCHANGED <<trimVars, contextVars, ctorError>>

\* the model stream is exhausted: lines 329-337, the generator completes
MSCommit(r) ==
    /\ pc[r] = "pulling"
    /\ sessionMemory' = commitAssistant(sessionMemory, r)
    /\ pc' = [pc EXCEPT ![r] = "done"]
    /\ UNCHANGED <<isInitialized, agent, initState, kind, sessionId, query,
                   effectiveSessionId, allMessages, modelStream, fullResponse,
                   aiMessage, relayed>>
    /\ UNCHANGED <<trimVars, contextVars, ctorError>>

\* MSStreamError saving the partial response before rethrowing
MSStreamError_Commits(r) ==
    /\ pc[r] = "pulling"
    /\ sessionMemory' = commitAssistant(sessionMemory, r)
    /\ pc' = [pc EXCEPT ![r] = "failedStream"]
    /\ UNCHANGED <<isInitialized, agent, initState, kind, sessionId,
                   query, effectiveSessionId, allMessages, modelStream, fullResponse,
                   aiMessage, relayed>>
    /\ UNCHANGED <<trimVars, contextVars, ctorError>>

\* the model stream throws: caught at 339, logged, rethrown to the consumer (344)
MSStreamError(r) ==
    /\ pc[r] = "pulling"
    /\ pc' = [pc EXCEPT ![r] = "failedStream"]
    /\ UNCHANGED <<isInitialized, agent, initState, sessionMemory, kind, sessionId,
                   query, effectiveSessionId, allMessages, modelStream, fullResponse,
                   aiMessage, relayed>>
    /\ UNCHANGED <<trimVars, contextVars, ctorError>>

\* MSAbandon saving the partial response in a `finally`
MSAbandon_Commits(r) ==
    /\ pc[r] = "yielded"
    /\ sessionMemory' = commitAssistant(sessionMemory, r)
    /\ pc' = [pc EXCEPT ![r] = "abandoned"]
    /\ UNCHANGED <<isInitialized, agent, initState, kind, sessionId,
                   query, effectiveSessionId, allMessages, modelStream, fullResponse,
                   aiMessage, relayed>>
    /\ UNCHANGED <<trimVars, contextVars, ctorError>>

\* the consumer stops iterating (break / return()) while the generator is
\* suspended at its yield: the generator finishes there, nothing after runs
MSAbandon(r) ==
    /\ pc[r] = "yielded"
    /\ pc' = [pc EXCEPT ![r] = "abandoned"]
    /\ UNCHANGED <<isInitialized, agent, initState, sessionMemory, kind, sessionId,
                   query, effectiveSessionId, allMessages, modelStream, fullResponse,
                   aiMessage, relayed>>
    /\ UNCHANGED <<trimVars, contextVars, ctorError>>

\* -------------------------------------------------------------------- Next
Kinds == {"processQuery", "getStream"}

Next ==
    \/ \E i \in Initiators : InitializeSucceed(i)
    \/ \E i \in Initiators : InitializeFail(i)
    \/ \E r \in Req, k \in Kinds, q \in Queries, sid \in Sessions \cup {NoSession} :
           Call(r, k, q, sid)
    \/ \E r \in Req : Resume(r)
    \/ \E r \in Req : StreamOpen(r)
    \/ \E r \in Req : StreamOpenFail(r)
    \/ \E r \in Req, chunk \in Chunks : PQChunk(r, chunk)
    \/ \E r \in Req : PQStreamError(r)
    \/ \E r \in Req : PQCommit(r)
    \/ \E r \in Req : MSFirstPull(r)
    \/ \E r \in Req, chunk \in Chunks : MSYield(r, chunk)
    \/ \E r \in Req : MSNext(r)
    \/ \E r \in Req : MSCommit(r)
    \/ \E r \in Req : MSStreamError(r)
    \/ \E r \in Req : MSAbandon(r)

Spec == Init /\ [][Next]_vars

\* ------------------------------------------------- trimMessages on its own
\* a sequence of turns with the given roles, told apart by position
TrimInput(f) == [i \in DOMAIN f |-> Turn(f[i], <<"m">>, 0, i)]
MaxCounts == {4, maxContextMessages}

InitTrim ==
    /\ InitAgent
    /\ \A s \in SessionIds : sessionMemory[s] = << >>
    /\ \E n \in 0..MaxLen : \E f \in [1..n -> Roles] : turns = TrimInput(f)
    /\ maxCount \in MaxCounts
    /\ trimmed = << >>
    /\ tpc = "input"
    /\ ContextIdle

ApplyTrim ==
    /\ tpc = "input"
    /\ trimmed' = trimMessages(turns, maxCount)
    /\ tpc' = "done"
    /\ UNCHANGED <<turns, maxCount>>
    /\ UNCHANGED <<agentVars, contextVars>>

NextTrim == ApplyTrim

SpecTrim == InitTrim /\ [][NextTrim]_vars

\* ------------------------------------ session registry operations on their own
\* MemorySaverManager.clearSession: drops the turns and the context of sid
clearSession_MessagesOnly(store, ctx, sid) ==
    <<[store EXCEPT ![sid] = << >>], ctx>>

clearSession(store, ctx, sid) ==
    <<[store EXCEPT ![sid] = << >>], [ctx EXCEPT ![sid] = EmptyContext]>>

\* MemorySaverManager.getContext: the mapping of sid, empty when none was set
getContext(ctx, sid) == ctx[sid]

\* MemorySaverManager.updateContext: { ...existing, ...partial }
updateContext_Replaces(ctx, sid, partial) == [ctx EXCEPT ![sid] = partial]

updateContext(ctx, sid, partial) ==
    [ctx EXCEPT ![sid] =
        [k \in Keys |-> IF partial[k] # Absent THEN partial[k] ELSE @[k]]]

Partials == [Keys -> Values \cup {Absent}]
RegistrySessions == Sessions \cup {GenNames[1]}
Operation(op, sid, arg) == [op |-> op, sid |-> sid, arg |-> arg]

InitSession ==
    /\ InitAgent
    /\ TrimIdle
    /\ ContextIdle

\* LegalAgent.clearSession(sessionId)
ClearSession(sid) ==
    /\ Len(log) < MaxOps
    /\ sessionMemory' = clearSession(sessionMemory, sessionContext, sid)[1]
    /\ sessionContext' = clearSession(sessionMemory, sessionContext, sid)[2]
    /\ log' = Append(log, Operation("clear", sid, EmptyContext))
    /\ UNCHANGED <<isInitialized, agent, initState, pc, kind, sessionId, query,
                   effectiveSessionId, allMessages, modelStream, fullResponse,
                   aiMessage, relayed, ctorError>>
    /\ UNCHANGED trimVars

\* LegalAgent.updateSessionContext(sessionId, context)
UpdateSessionContext(sid, partial) ==
    /\ Len(log) < MaxOps
    /\ sessionContext' = updateContext(sessionContext, sid, partial)
    /\ log' = Append(log, Operation("update", sid, partial))
    /\ UNCHANGED <<isInitialized, agent, initState, sessionMemory, pc, kind,
                   sessionId, query, effectiveSessionId, allMessages, modelStream,
                   fullResponse, aiMessage, relayed, ctorError>>
    /\ UNCHANGED trimVars

\* a turn is stored for the session (MemorySaverManager.addMessage)
StoreTurn(sid, role) ==
    /\ Len(log) < MaxOps
    /\ sessionMemory' = addMessage(sessionMemory, sid,
                                   Turn(role, <<"m">>, 0, Len(log) + PriorLen + 1))
    /\ log' = Append(log, Operation("add", sid, EmptyContext))
    /\ UNCHANGED <<isInitialized, agent, initState, pc, kind, sessionId, query,
                   effectiveSessionId, allMessages, modelStream, fullResponse,
                   aiMessage, relayed, ctorError, sessionContext>>
    /\ UNCHANGED trimVars

NextSession ==
    \/ \E sid \in RegistrySessions : ClearSession(sid)
    \/ \E sid \in RegistrySessions, partial \in Partials :
           UpdateSessionContext(sid, partial)
    \/ \E sid \in RegistrySessions, role \in {"user", "assistant"} :
           StoreTurn(sid, role)

SpecSession == InitSession /\ [][NextSession]_vars

\* ================================================================== claims
\* the turns call r has put into the store of session s
OwnTurns(r, s) == SelectSeq(sessionMemory[s], LAMBDA m : m.req = r)
OwnTurnsAfter(r, s) == SelectSeq(sessionMemory'[s], LAMBDA m : m.req = r)
HasText(stream) == \E i \in DOMAIN stream : stream[i].isText
UserTurn(r) == [role |-> "user", content |-> query[r], req |-> r, pos |-> 0]
IsPrefix(s, t) == Len(s) <= Len(t) /\ SubSeq(t, 1, Len(s)) = s
\* the step in which processQuery finds its stream exhausted
PQExhausted(r) == kind[r] = "processQuery" /\ pc[r] = "streaming" /\ pc'[r] = "done"

\* C1 (as stated): when processQuery finds its model stream exhausted, the
\* session's store becomes its content just before extended by exactly two
\* turns, the call's user turn then the call's assistant turn, for every stream.
C1_AlwaysTwoTurns ==
    [][\A r \in Req : PQExhausted(r) =>
          LET old == sessionMemory[effectiveSessionId[r]]
              new == sessionMemory'[effectiveSessionId[r]]
          IN  /\ Len(new) = Len(old) + 2
              /\ IsPrefix(old, new)
              /\ new[Len(old) + 1] = UserTurn(r)
              /\ new[Len(old) + 2].role = "assistant"
              /\ new[Len(old) + 2].req = r]_vars

\* C1 (amended): when processQuery finds its model stream exhausted, the
\* session's store becomes its content just before extended by the call's user
\* turn followed by the call's assistant turn if the stream delivered at least
\* one text fragment, and by the user turn alone if it delivered none; no other
\* session's store changes.
C1_CommitOnExhaustion ==
    [][\A r \in Req : PQExhausted(r) =>
          LET sid == effectiveSessionId[r]
              old == sessionMemory[sid]
              new == sessionMemory'[sid]
          IN  /\ IF HasText(modelStream[r])
                 THEN /\ Len(new) = Len(old) + 2
                      /\ IsPrefix(old, new)
                      /\ new[Len(old) + 1] = UserTurn(r)
                      /\ new[Len(old) + 2].role = "assistant"
                      /\ new[Len(old) + 2].req = r
                 ELSE new = Append(old, UserTurn(r))
              /\ \A s \in SessionIds \ {sid} : sessionMemory'[s] = sessionMemory[s]]_vars

\* a processQuery call has returned after a stream with text, and its two
\* turns are the last two of the session's store
C1_Witness ==
    \E r \in Req :
        /\ kind[r] = "processQuery" /\ pc[r] = "done" /\ HasText(modelStream[r])
        /\ LET st == sessionMemory[effectiveSessionId[r]]
           IN  /\ Len(st) >= 2
               /\ st[Len(st) - 1] = UserTurn(r)
               /\ st[Len(st)].role = "assistant" /\ st[Len(st)].req = r

\* C2: a processQuery call that is not at its commit never changes the store,
\* and a processQuery call that ended with an error (initialization, model
\* invocation or stream) has no turn, user or assistant, in any session's store.
C2_FailedQueryLeavesStore ==
    [][\A r \in Req :
          /\ (/\ kind'[r] = "processQuery"
              /\ <<pc[r], modelStream[r]>> # <<pc'[r], modelStream'[r]>>
              /\ pc'[r] # "done")
                 => sessionMemory' = sessionMemory
          /\ (kind'[r] = "processQuery" /\ pc'[r] \in {"failedInit", "failedQuery"})
                 => \A s \in SessionIds : OwnTurnsAfter(r, s) = << >>]_vars

\* a processQuery call failed in mid-stream, after a text chunk was accumulated
C2_Witness ==
    \E r \in Req :
        /\ kind[r] = "processQuery" /\ pc[r] = "failedQuery"
        /\ aiMessage[r] # Null
        /\ \A s \in SessionIds : OwnTurns(r, s) = << >>

\* C3: when the model stream of a getStream call throws after the consumer
\* started iterating, the error reaches the consumer and the call's only turn
\* in the store is its user turn, in its own session: no assistant turn.
C3_StreamErrorKeepsUserOnly ==
    \A r \in Req : pc[r] = "failedStream" =>
        /\ kind[r] = "getStream"
        /\ OwnTurns(r, effectiveSessionId[r]) = <<UserTurn(r)>>
        /\ \A s \in SessionIds \ {effectiveSessionId[r]} : OwnTurns(r, s) = << >>

\* the stream of a getStream call threw after a text chunk was accumulated
C3_Witness ==
    \E r \in Req :
        /\ pc[r] = "failedStream" /\ aiMessage[r] # Null
        /\ OwnTurns(r, effectiveSessionId[r]) = <<UserTurn(r)>>

\* C4 (as stated): once getStream has returned its stream, the call's user
\* turn is in the session's store, pulled or not.
C4_UserSavedOnReturn ==
    \A r \in Req : (kind[r] = "getStream" /\ pc[r] = "returned") =>
        \E i \in DOMAIN sessionMemory[effectiveSessionId[r]] :
            sessionMemory[effectiveSessionId[r]][i] = UserTurn(r)

\* C4 (amended): the user turn of a getStream call is committed at the
\* consumer's first pull: while the returned stream has not been pulled the
\* call has no turn in the store, and from the first pull on its user turn is
\* the first of its turns in the session's store.
C4_UserSavedOnFirstPull ==
    \A r \in Req : kind[r] = "getStream" =>
        /\ pc[r] = "returned" => \A s \in SessionIds : OwnTurns(r, s) = << >>
        /\ pc[r] \in {"pulling", "yielded", "done", "failedStream", "abandoned"} =>
              /\ OwnTurns(r, effectiveSessionId[r]) # << >>
              /\ OwnTurns(r, effectiveSessionId[r])[1] = UserTurn(r)

\* the consumer has pulled once, no chunk has arrived, the user turn is stored
C4_Witness ==
    \E r \in Req :
        /\ kind[r] = "getStream" /\ pc[r] = "pulling" /\ modelStream[r] = << >>
        /\ OwnTurns(r, effectiveSessionId[r]) = <<UserTurn(r)>>

\* C5: when the consumer of a getStream stream stops iterating before the
\* model stream is exhausted, no assistant turn of the call is in any store,
\* however many chunks were relayed.
C5_AbandonedNeverCommits ==
    \A r \in Req : pc[r] = "abandoned" =>
        \A s \in SessionIds :
            \A i \in DOMAIN sessionMemory[s] :
                ~(sessionMemory[s][i].req = r /\ sessionMemory[s][i].role = "assistant")

\* the consumer stopped after MaxChunks relayed chunks, text already accumulated
C5_Witness ==
    \E r \in Req :
        /\ pc[r] = "abandoned" /\ Len(relayed[r]) >= 2 /\ aiMessage[r] # Null
        /\ OwnTurns(r, effectiveSessionId[r]) = <<UserTurn(r)>>

\* C10 (as stated): at no time are two initializations in flight, and at most
\* one initialization completes successfully.
C10_SingleInitialization ==
    /\ Cardinality({i \in Initiators : initState[i] = "running"}) <= 1
    /\ Cardinality({i \in Initiators : initState[i] = "ok"}) <= 1

\* the positions of the system turns of a sequence
SystemAt(s) == {i \in DOMAIN s : s[i].role = "system"}
Occurrences(s, m) == Cardinality({j \in DOMAIN s : s[j] = m})

\* C6: trimMessages of a sequence no longer than maxCount returns that
\* sequence: same turns, same order, same length, system turns or not.
C6_TrimIdentity ==
    (tpc = "done" /\ Len(turns) <= maxCount) => trimmed = turns

\* a sequence of exactly maxCount turns holding a system turn came back unchanged
C6_Witness ==
    /\ tpc = "done" /\ Len(turns) = maxCount /\ SystemAt(turns) # {}
    /\ trimmed = turns

\* C7: trimMessages of a sequence longer than maxCount returns the system turns
\* in their original order, then the last maxCount turns in original order,
\* without deduplication: the length is (number of system turns) + maxCount and
\* a system turn within the last maxCount positions occurs twice.
C7_TrimSystemThenRecent ==
    (tpc = "done" /\ Len(turns) > maxCount) =>
        LET n == Len(turns)
            k == Cardinality(SystemAt(turns))
        IN  /\ Len(trimmed) = k + maxCount
            /\ \A j \in 1..maxCount : trimmed[k + j] = turns[n - maxCount + j]
            /\ \A j \in 1..k :
                  /\ trimmed[j].role = "system"
                  /\ trimmed[j].pos \in SystemAt(turns)
                  /\ trimmed[j] = turns[trimmed[j].pos]
                  /\ j < k => trimmed[j].pos < trimmed[j + 1].pos
            /\ \A i \in SystemAt(turns) :
                  Occurrences(trimmed, turns[i]) = IF i > n - maxCount THEN 2 ELSE 1

\* a longer sequence with one system turn among the last maxCount and one before
C7_Witness ==
    /\ tpc = "done" /\ Len(turns) > maxCount
    /\ \E i, j \in SystemAt(turns) : i <= Len(turns) - maxCount /\ j > Len(turns) - maxCount
    /\ Len(trimmed) = Cardinality(SystemAt(turns)) + maxCount

\* the spec's example [system, u1, a1, u2, a2, u3]
Example ==
    TrimInput(<<"system", "user", "assistant", "user", "assistant", "user">>)
ExampleOutput == <<Example[1], Example[3], Example[4], Example[5], Example[6]>>

\* C8 (as stated): for [system, u1, a1, u2, a2, u3] and maxCount = 4 trim
\* returns [system, a1, u2, a2, u3], of length 5, with the system turn twice.
C8_ExampleSystemTwice ==
    (tpc = "done" /\ turns = Example /\ maxCount = 4) =>
        /\ trimmed = ExampleOutput
        /\ Len(trimmed) = 5
        /\ Occurrences(trimmed, Example[1]) = 2

\* C8 (amended): for [system, u1, a1, u2, a2, u3] and maxCount = 4 trim returns
\* [system, a1, u2, a2, u3], of length 5, with the system turn once (it is not
\* among the last 4 turns).
C8_ExampleSystemOnce ==
    (tpc = "done" /\ turns = Example /\ maxCount = 4) =>
        /\ trimmed = ExampleOutput
        /\ Len(trimmed) = 5
        /\ Occurrences(trimmed, Example[1]) = 1

\* trimMessages has been applied to the example with maxCount = 4
C8_Witness ==
    tpc = "done" /\ turns = Example /\ maxCount = 4 /\ Len(trimmed) = 5

\* the step in which call r assembles its request
Assembles(r) == pc[r] \in {"idle", "ready"} /\ pc'[r] = "invoking"

\* C9 (as stated): the trimmed history in a model request has at most
\* maxContextMessages turns: a request carries at most that many plus the new
\* user turn.
C9_RequestBounded ==
    \A r \in Req : Len(allMessages[r]) <= maxContextMessages + 1

\* C9 (amended): the trimmed history in a model request has at most
\* maxContextMessages turns plus the number of system turns of the stored
\* history it was trimmed from; it has at most maxContextMessages turns when
\* that history holds no system turn.
C9_RequestBoundedPlusSystem ==
    [][\A r \in Req : Assembles(r) =>
          Len(allMessages'[r]) <= maxContextMessages + 1
              + Cardinality(SystemAt(sessionMemory[effectiveSessionId'[r]]))]_vars

\* a request was assembled from a stored history longer than maxContextMessages
C9_Witness ==
    \E r \in Req :
        /\ pc[r] = "invoking"
        /\ Len(sessionMemory[effectiveSessionId[r]]) > maxContextMessages
        /\ Len(allMessages[r]) > maxContextMessages

\* C11: with no clearSession, every session's store is append-only and keeps
\* the order of the addMessage calls: each step leaves the earlier content as a
\* prefix of the later one, and the turns a call has added stand in the order
\* it added them (its user turn, then its assistant turn).
C11_AppendOnly ==
    [][/\ \A s \in SessionIds : IsPrefix(sessionMemory[s], sessionMemory'[s])
       /\ \A r \in Req, s \in SessionIds :
             LET own == OwnTurnsAfter(r, s)
             IN  /\ Len(own) <= 2
                 /\ Len(own) >= 1 => own[1] = [role |-> "user", content |-> query'[r],
                                                 req |-> r, pos |-> 0]
                 /\ Len(own) = 2 => own[2].role = "assistant"]_vars

\* two calls have committed to the same session, after a history that was there
C11_Witness ==
    \E s \in Sessions :
        /\ Len(sessionMemory[s]) >= PriorLen + 3
        /\ \A r \in Req : pc[r] = "done" /\ effectiveSessionId[r] = s
        /\ SubSeq(sessionMemory[s], 1, PriorLen) = PriorHistory

\* the concatenation, in arrival order, of the text fragments of a stream
RECURSIVE TextOf(_)
TextOf(stream) ==
    IF stream = << >> THEN << >>
    ELSE (IF Head(stream).isText THEN Head(stream).content ELSE << >>)
             \o TextOf(Tail(stream))

\* C12 (as stated): the assistant turn committed for a call has as content the
\* concatenation of the text fragments of all chunks the model streamed for
\* it, the text processQuery returns.
C12_CommittedIsAccumulation ==
    \A r \in Req : pc[r] = "done" =>
        /\ kind[r] = "processQuery" => fullResponse[r] = TextOf(modelStream[r])
        /\ \A s \in SessionIds : \A i \in DOMAIN sessionMemory[s] :
              (sessionMemory[s][i].req = r /\ sessionMemory[s][i].role = "assistant")
                  => sessionMemory[s][i].content = TextOf(modelStream[r])

\* C16: the message list a call hands to the model is the trimmed stored
\* history of its session, as read when the call assembles its request,
\* followed by the new user turn as last element; assembling the request
\* leaves every session's store unchanged.
C16_RequestIsTrimmedPlusUser ==
    [][\A r \in Req : Assembles(r) =>
          LET sid == IF sessionId'[r] # NoSession THEN sessionId'[r] ELSE GenNames[r]
              history == sessionMemory[sid]
              sent == allMessages'[r]
          IN  /\ effectiveSessionId'[r] = sid
              /\ Len(sent) >= 1
              /\ sent[Len(sent)] = [role |-> "user", content |-> query'[r],
                                    req |-> r, pos |-> 0]
              /\ SubSeq(sent, 1, Len(sent) - 1) =
                     trimMessages(history, maxContextMessages)
              /\ sessionMemory' = sessionMemory]_vars

\* a request assembled from a history that trimming shortened
C16_Witness ==
    \E r \in Req :
        /\ pc[r] = "invoking"
        /\ Len(sessionMemory[effectiveSessionId[r]]) > maxContextMessages + 1
        /\ Len(allMessages[r]) < Len(sessionMemory[effectiveSessionId[r]]) + 1
        /\ allMessages[r][1].role = "system"

\* C17: the stream getStream returns relays the model's chunks unmodified and
\* in order, each one before the next is pulled from the model: at every moment
\* the relayed chunks are exactly the chunks the model has produced, a new
\* chunk is pulled only after the consumer asked again, and when the model
\* stream is exhausted the relayed stream ends with all of them.
C17_RelayIsModelStream ==
    [][\A r \in Req : kind'[r] = "getStream" =>
          /\ relayed'[r] = modelStream'[r]
          /\ modelStream'[r] # modelStream[r] =>
                /\ pc[r] = "pulling" /\ pc'[r] = "yielded"
                /\ relayed[r] = modelStream[r]
                /\ Len(modelStream'[r]) = Len(modelStream[r]) + 1
                /\ IsPrefix(modelStream[r], modelStream'[r])]_vars

\* a getStream stream ended after relaying MaxChunks chunks, among them one without text
C17_Witness ==
    \E r \in Req :
        /\ kind[r] = "getStream" /\ pc[r] = "done"
        /\ Len(relayed[r]) >= 2
        /\ \E i \in DOMAIN relayed[r] : ~relayed[r][i].isText
        /\ \E i \in DOMAIN relayed[r] : relayed[r][i].isText

\* C18: calls on different sessions do not interfere: under every interleaving
\* a step changes the store of a session only if it is the step of a call on
\* that very session, and it only appends turns of that call; the stores of all
\* other sessions are left as they are.
C18_SessionsIsolated ==
    [][\A s \in SessionIds : sessionMemory'[s] # sessionMemory[s] =>
          \E r \in Req :
              /\ pc'[r] # pc[r]
              /\ effectiveSessionId[r] = s
              /\ IsPrefix(sessionMemory[s], sessionMemory'[s])
              /\ \A i \in (Len(sessionMemory[s]) + 1)..Len(sessionMemory'[s]) :
                    sessionMemory'[s][i].req = r
              /\ \A t \in SessionIds \ {s} : sessionMemory'[t] = sessionMemory[t]]_vars

\* two calls on different sessions have both committed, each into its own store
C18_Witness ==
    \E r1, r2 \in Req :
        /\ effectiveSessionId[r1] \in Sessions /\ effectiveSessionId[r2] \notin Sessions
        /\ pc[r1] = "done" /\ pc[r2] = "done"
        /\ OwnTurns(r1, effectiveSessionId[r1]) # << >>
        /\ Len(OwnTurns(r2, effectiveSessionId[r2])) = Len(sessionMemory[effectiveSessionId[r2]])
        /\ aiMessage[r2] # Null /\ kind[r2] = "getStream"

\* C19: for concurrent processQuery calls on one session each commit is atomic:
\* in every store the user turn of a processQuery call that has an assistant
\* turn is immediately followed by that call's assistant turn, and the pair is
\* put at the end of the store in the step in which the call's stream is
\* exhausted, so that pairs stand in the order of exhaustion.
C19_AtomicCommit ==
    [][/\ \A s \in SessionIds : \A i \in DOMAIN sessionMemory'[s] :
             LET m == sessionMemory'[s][i]
             IN  (/\ m.req \in Req /\ m.role = "user"
                  /\ kind'[m.req] = "processQuery" /\ aiMessage'[m.req] # Null)
                     => /\ i < Len(sessionMemory'[s])
                        /\ sessionMemory'[s][i + 1].req = m.req
                        /\ sessionMemory'[s][i + 1].role = "assistant"
       /\ \A r \in Req : (PQExhausted(r) /\ aiMessage[r] # Null) =>
             LET old == sessionMemory[effectiveSessionId[r]]
                 new == sessionMemory'[effectiveSessionId[r]]
             IN  /\ Len(new) = Len(old) + 2
                 /\ IsPrefix(old, new)
                 /\ new[Len(new) - 1].req = r /\ new[Len(new) - 1].role = "user"
                 /\ new[Len(new)].req = r /\ new[Len(new)].role = "assistant"]_vars

\* two processQuery calls on one session ran concurrently and both committed a
\* pair, the pair of the higher-numbered call first
C19_Witness ==
    \E s \in Sessions :
        /\ \A r \in Req : /\ kind[r] = "processQuery" /\ pc[r] = "done"
                          /\ effectiveSessionId[r] = s /\ aiMessage[r] # Null
        /\ Len(sessionMemory[s]) >= 4
        /\ sessionMemory[s][Len(sessionMemory[s])].req = 1
        /\ sessionMemory[s][Len(sessionMemory[s]) - 2].req = 2
        /\ \A r \in Req : \A i \in DOMAIN allMessages[r] : allMessages[r][i].req \in {0, r}

\* C20: the model stream is only opened while the orchestrator is ready: a
\* call assembles its request and invokes the model only when isInitialized
\* holds (and agent is set), isInitialized holds only after some initialization
\* has completed successfully, and once it holds it holds for ever.
C20_InvokedOnlyWhenReady ==
    [][/\ \A r \in Req : Assembles(r) => (isInitialized /\ agent # {})
       /\ \A r \in Req : pc'[r] \notin {"idle", "initializing", "ready", "failedInit"}
                            => isInitialized'
       /\ isInitialized' => \E i \in Initiators : initState'[i] = "ok"
       /\ isInitialized => isInitialized']_vars

\* the constructor's initialization failed, a call's own initialization made
\* the orchestrator ready, and that call's stream is open
C20_Witness ==
    \E r \in Req :
        /\ initState[Ctor] = "failed" /\ initState[r] = "ok"
        /\ isInitialized /\ pc[r] = "streaming"

\* C15 (as stated): when the initialization started by the constructor fails,
\* the failure is thrown to the caller of the constructor.
C15_CtorFailureThrown ==
    initState[Ctor] = "failed" => ctorError = "thrown"

\* C15 (amended): when the initialization started by the constructor fails,
\* the failure is rethrown by initializeAgent to the constructor's catch
\* handler, which logs it and lets nothing reach the constructor's caller: the
\* caller holds an instance that is not ready, and stays so until the
\* initialization started by a later call succeeds.
C15_CtorFailureLogged ==
    initState[Ctor] = "failed" =>
        /\ ctorError = "logged"
        /\ isInitialized => \E r \in Req : initState[r] = "ok"

\* the constructor's initialization failed, the instance is not ready and a
\* call is running its own initialization
C15_Witness ==
    /\ initState[Ctor] = "failed" /\ ctorError = "logged" /\ ~isInitialized
    /\ \E r \in Req : pc[r] = "initializing"

\* the operation the step has just applied
Applied(op, sid) ==
    /\ Len(log') = Len(log) + 1
    /\ log'[Len(log')].op = op /\ log'[Len(log')].sid = sid

\* C13: clearSession(id) removes all turns and all context of session id:
\* right after it getMessages(id) is the empty sequence and getContext(id) the
\* empty mapping; a second clearSession(id) in a row changes nothing (and is
\* accepted); the other sessions' turns and context are unaffected.
C13_ClearSession ==
    [][\A id \in SessionIds : Applied("clear", id) =>
          /\ getMessages(sessionMemory', id) = << >>
          /\ \A k \in Keys : getContext(sessionContext', id)[k] = Absent
          /\ \A s \in SessionIds \ {id} :
                /\ sessionMemory'[s] = sessionMemory[s]
                /\ sessionContext'[s] = sessionContext[s]
          /\ (/\ log # << >>
              /\ log[Len(log)].op = "clear" /\ log[Len(log)].sid = id)
                 => /\ sessionMemory' = sessionMemory
                    /\ sessionContext' = sessionContext]_vars

\* a session that had context was cleared twice in a row while the other
\* session kept the turns it had
C13_Witness ==
    \E id \in RegistrySessions :
        /\ Len(log) = 3
        /\ log[1].op = "update" /\ log[1].sid = id /\ log[1].arg # EmptyContext
        /\ log[2].op = "clear" /\ log[2].sid = id
        /\ log[3].op = "clear" /\ log[3].sid = id
        /\ sessionMemory[id] = << >> /\ sessionContext[id] = EmptyContext
        /\ sessionMemory["s1"] = PriorHistory

\* C14: updateContext(id, partial) merges: afterwards every key of partial has
\* partial's value and every other key keeps its value, for this session only;
\* so {a:1} then {b:2} on a session without context yields {a:1, b:2}, and a
\* session on which no context was set has the empty mapping.
C14_ContextMerge ==
    [][/\ \A id \in SessionIds : Applied("update", id) =>
             LET partial == log'[Len(log')].arg
             IN  /\ \A k \in Keys :
                       getContext(sessionContext', id)[k] =
                           IF partial[k] # Absent THEN partial[k]
                           ELSE getContext(sessionContext, id)[k]
                 /\ \A s \in SessionIds \ {id} : sessionContext'[s] = sessionContext[s]
                 /\ sessionMemory' = sessionMemory
       /\ \A id \in SessionIds :
             (\A i \in DOMAIN log' : ~(log'[i].op = "update" /\ log'[i].sid = id))
                 => getContext(sessionContext', id) = EmptyContext
       /\ \A id \in SessionIds :
             (/\ Len(log') = 2
              /\ \A i \in {1, 2} : log'[i].op = "update" /\ log'[i].sid = id
              /\ log'[1].arg = [k \in Keys |-> IF k = "a" THEN "1" ELSE Absent]
              /\ log'[2].arg = [k \in Keys |-> IF k = "b" THEN "2" ELSE Absent])
                 => getContext(sessionContext', id) =
                        [k \in Keys |-> IF k = "a" THEN "1" ELSE "2"]]_vars

\* {a:1} then {b:2} were merged into one session's context, then a was overwritten
C14_Witness ==
    \E id \in RegistrySessions :
        /\ Len(log) = 3
        /\ \A i \in DOMAIN log : log[i].op = "update" /\ log[i].sid = id
        /\ log[1].arg = [k \in Keys |-> IF k = "a" THEN "1" ELSE Absent]
        /\ log[2].arg = [k \in Keys |-> IF k = "b" THEN "2" ELSE Absent]
        /\ log[3].arg = [k \in Keys |-> IF k = "a" THEN "2" ELSE Absent]
        /\ sessionContext[id] = [k \in Keys |-> "2"]

====
